---- MODULE Spec2Model ----
(***************************************************************************)
(* Model of src/main.py (CSVSorter): type detection, sort-value            *)
(* normalisation, header reconciliation, the file sorter and the batch     *)
(* driver.                                                                 *)
(*                                                                         *)
(* A string is a sequence of one-character strings.  A file is the string  *)
(* of its characters, with "\n" ending each line.                          *)
(***************************************************************************)
EXTENDS Integers, Sequences, FiniteSets, Bags, TLC

VARIABLES
    input_files,         \* config['input_files']: sequence of file names
    files,               \* INPUT directory: name -> "missing" or file text
    sort_config,         \* config['sort_config']: [delimiter, fields, order]
    common_sort_fields,  \* self.common_sort_fields
    pc,                  \* position of the run: "new", "ready", "loop", "done"
    idx,                 \* position of the loop of process_files in input_files
    outputs,             \* OUTPUT directory: name -> "none" or file text
    runs,                \* name -> what sort_csv_file did for that file
    resorted,            \* name -> what sort_csv_file did when fed its own output
    value,               \* sort_value: argument value
    field_type,          \* sort_value: argument field_type
    sort_result,         \* sort_value: returned value, or "none" before the call
    sample_values,       \* detect_field_type: argument
    detected             \* detect_field_type: returned type, or "none"

vars == <<input_files, files, sort_config, common_sort_fields, pc, idx,
          outputs, runs, resorted, value, field_type, sort_result,
          sample_values, detected>>

batch_vars == <<input_files, files, sort_config, common_sort_fields, pc, idx,
                outputs, runs, resorted>>

value_vars == <<value, field_type, sort_result>>

detect_vars == <<sample_values, detected>>

(***************************************************************************)
(* Characters and strings                                                  *)
(***************************************************************************)

\* Unicode code point of the characters the model uses (str comparison).
Ord(c) ==
    CASE c = "\n" -> 10 [] c = " " -> 32 [] c = "\"" -> 34 [] c = "," -> 44
      [] c = "." -> 46 [] c = "/" -> 47 [] c = "0" -> 48 [] c = "1" -> 49
      [] c = "2" -> 50 [] c = ";" -> 59 [] c = "A" -> 65 [] c = "B" -> 66
      [] c = "C" -> 67 [] c = "D" -> 68 [] c = "X" -> 88 [] c = "a" -> 97
      [] c = "b" -> 98 [] c = "c" -> 99 [] c = "d" -> 100 [] c = "n" -> 110
      [] c = "x" -> 120

\* str.isspace for one character.
IsSpace(c) == c \in {" ", "\n"}

\* str.isdigit for one character.
IsDigit(c) == c \in {"0", "1", "2"}

DigitVal(c) == CASE c = "0" -> 0 [] c = "1" -> 1 [] c = "2" -> 2

\* str.lower for one character.
LowerChar(c) ==
    CASE c = "A" -> "a" [] c = "B" -> "b" [] c = "C" -> "c" [] c = "D" -> "d"
      [] c = "X" -> "x" [] OTHER -> c

\* str.lower
Lower(s) == [i \in 1..Len(s) |-> LowerChar(s[i])]

RECURSIVE LStrip(_)
LStrip(s) == IF s # <<>> /\ IsSpace(Head(s)) THEN LStrip(Tail(s)) ELSE s

RECURSIVE RStrip(_)
RStrip(s) ==
    IF s # <<>> /\ IsSpace(s[Len(s)]) THEN RStrip(SubSeq(s, 1, Len(s) - 1)) ELSE s

\* str.strip
Strip(s) == RStrip(LStrip(s))

\* str.replace(',', '.')
ReplaceComma(s) == [i \in 1..Len(s) |-> IF s[i] = "," THEN "." ELSE s[i]]

\* str < str: lexicographic on code points.
RECURSIVE StrLt(_, _)
StrLt(a, b) ==
    IF b = <<>> THEN FALSE
    ELSE IF a = <<>> THEN TRUE
    ELSE IF Head(a) = Head(b) THEN StrLt(Tail(a), Tail(b))
    ELSE Ord(Head(a)) < Ord(Head(b))

(***************************************************************************)
(* Comparable values: str, float, datetime                                 *)
(***************************************************************************)

StrValue(s) == [t |-> "str", s |-> s]

\* A finite float is m / 10^e; float('-inf') has inf = TRUE and float('nan')
\* has nan = TRUE.
FloatValue(m, e) == [t |-> "float", inf |-> FALSE, nan |-> FALSE, m |-> m, e |-> e]

NegInf == [t |-> "float", inf |-> TRUE, nan |-> FALSE, m |-> 0, e |-> 0]

NaN == [t |-> "float", inf |-> FALSE, nan |-> TRUE, m |-> 0, e |-> 0]

DateValue(y, m, d) == [t |-> "datetime", y |-> y, m |-> m, d |-> d]

\* datetime.min
DatetimeMin == DateValue(1, 1, 1)

\* The day the program runs: dateutil fills the fields a string leaves out
\* from today's date.
Today == [y |-> 2026, m |-> 11, d |-> 1]

ValueError == [t |-> "ValueError"]

RECURSIVE Pow10(_)
Pow10(n) == IF n = 0 THEN 1 ELSE 10 * Pow10(n - 1)

\* Digits of s read as a decimal integer.
RECURSIVE DigitsInt(_)
DigitsInt(s) ==
    IF s = <<>> THEN 0 ELSE 10 * DigitsInt(SubSeq(s, 1, Len(s) - 1)) + DigitVal(s[Len(s)])

AllDigits(s) == \A i \in 1..Len(s) : IsDigit(s[i])

\* float(s) for a stripped string over the model's characters: digits with at
\* most one ".", at least one digit, or "nan"; anything else raises ValueError.
ParseFloat(s) ==
    LET dots == {i \in 1..Len(s) : s[i] = "."}
    IN  IF s # <<>> /\ AllDigits(s) THEN FloatValue(DigitsInt(s), 0)
        ELSE IF s = <<"n", "a", "n">> THEN NaN
        ELSE IF Cardinality(dots) = 1
        THEN LET p == CHOOSE i \in dots : TRUE
                 ip == SubSeq(s, 1, p - 1)
                 fp == SubSeq(s, p + 1, Len(s))
             IN  IF AllDigits(ip) /\ AllDigits(fp) /\ Len(ip) + Len(fp) > 0
                 THEN FloatValue(DigitsInt(ip \o fp), Len(fp))
                 ELSE ValueError
        ELSE ValueError

\* dateutil.parser.parse(s) for a stripped string over the model's characters:
\* one or two digits are a day of the current month, "m/d" and "m,d" (one digit
\* each) are a month and a day of the current year; a string with a letter, or
\* with no digit at all, raises ParserError, a ValueError.
ParseDate(s) ==
    IF Len(s) \in {1, 2} /\ AllDigits(s) /\ DigitsInt(s) >= 1
    THEN DateValue(Today.y, Today.m, DigitsInt(s))
    ELSE IF Len(s) = 3 /\ IsDigit(s[1]) /\ s[2] \in {"/", ","} /\ IsDigit(s[3])
            /\ DigitVal(s[1]) >= 1 /\ DigitVal(s[3]) >= 1
    THEN DateValue(Today.y, DigitVal(s[1]), DigitVal(s[3]))
    ELSE ValueError

(***************************************************************************)
(* CSVSorter.detect_field_type                                             *)
(***************************************************************************)

ParsesAsNumber(v) == ParseFloat(ReplaceComma(v)) # ValueError

ParsesAsDate(v) == ParseDate(v) # ValueError

\* [v.strip() for v in sample_values if v.strip()]
RECURSIVE NonEmpty(_)
NonEmpty(samples) ==
    IF samples = <<>> THEN <<>>
    ELSE (IF Strip(Head(samples)) # <<>> THEN <<Strip(Head(samples))>> ELSE <<>>)
         \o NonEmpty(Tail(samples))

\* The threshold test with >= in place of >.
Over80Inclusive(count, total) == count * 5 >= total * 4

\* count / total > 0.8 on Python floats: count / total is the double nearest
\* to the quotient and 0.8 the double nearest to 4/5, so for totals this small
\* the test is count * 5 > total * 4.
Over80(count, total) == count * 5 > total * 4

detect_field_type(samples) ==
    LET non_empty == NonEmpty(samples)
        number_count ==
            Cardinality({i \in 1..Len(non_empty) : ParsesAsNumber(non_empty[i])})
        date_count ==
            Cardinality({i \in 1..Len(non_empty) : ParsesAsDate(non_empty[i])})
    IN  IF samples = <<>> THEN "text"
        ELSE IF non_empty = <<>> THEN "text"
        ELSE IF Over80(number_count, Len(non_empty)) THEN "number"
        ELSE IF Over80(date_count, Len(non_empty)) THEN "date"
        ELSE "text"

(***************************************************************************)
(* CSVSorter.sort_value                                                    *)
(***************************************************************************)

\* try: return parsed / except ValueError: return fallback
OrElse(parsed, fallback) == IF parsed # ValueError THEN parsed ELSE fallback

\* sort_value after the test for an empty value; s is value.strip().
StrippedValue(s, type) ==
    IF type = "number" THEN OrElse(ParseFloat(ReplaceComma(s)), NegInf)
    ELSE IF type = "date" THEN OrElse(ParseDate(s), DatetimeMin)
    ELSE StrValue(Lower(s))

\* The value of an empty or whitespace-only cell.
BlankValue(type) == IF type = "text" THEN StrValue(<<>>) ELSE NegInf

\* not value or value.strip() == ''
IsBlank(v) == \A i \in 1..Len(v) : IsSpace(v[i])

sort_value(v, type) ==
    IF IsBlank(v) THEN BlankValue(type) ELSE StrippedValue(Strip(v), type)

(***************************************************************************)
(* Comparison of sort keys (tuples of values), as Python compares tuples   *)
(***************************************************************************)

\* a == b on the values of two rows; values of different types are unequal,
\* and so is a nan and any float.
ValEq(a, b) ==
    /\ a.t = b.t
    /\ CASE a.t = "str" -> a.s = b.s
         [] a.t = "float" ->
                IF a.nan \/ b.nan THEN FALSE
                ELSE IF a.inf \/ b.inf THEN a.inf = b.inf
                ELSE a.m * Pow10(b.e) = b.m * Pow10(a.e)
         [] a.t = "datetime" -> a.y = b.y /\ a.m = b.m /\ a.d = b.d

\* a < b on two values of one type.
ValLt(a, b) ==
    CASE a.t = "str" -> StrLt(a.s, b.s)
      [] a.t = "float" ->
             IF a.nan \/ b.nan THEN FALSE
             ELSE IF b.inf THEN FALSE
             ELSE IF a.inf THEN TRUE
             ELSE a.m * Pow10(b.e) < b.m * Pow10(a.e)
      [] a.t = "datetime" ->
             \/ a.y < b.y
             \/ a.y = b.y /\ a.m < b.m
             \/ a.y = b.y /\ a.m = b.m /\ a.d < b.d

\* Index of the first position where two tuples of one length differ, 0 if none.
FirstDiff(k1, k2) ==
    LET diff == {i \in 1..Len(k1) : ~ValEq(k1[i], k2[i])}
    IN  IF diff = {} THEN 0 ELSE CHOOSE i \in diff : \A j \in diff : i <= j

\* k1 < k2 raises TypeError: the first differing elements are a float and a
\* datetime.
KeyRaises(k1, k2) ==
    LET i == FirstDiff(k1, k2) IN i # 0 /\ k1[i].t # k2[i].t

KeyEq(k1, k2) == FirstDiff(k1, k2) = 0

\* k1 < k2 where it does not raise.
KeyLt(k1, k2) ==
    LET i == FirstDiff(k1, k2) IN i # 0 /\ ValLt(k1[i], k2[i])

(***************************************************************************)
(* sorted(data_rows, key=sort_key, reverse=reverse)                        *)
(***************************************************************************)

Reverse(seq) == [i \in 1..Len(seq) |-> seq[Len(seq) + 1 - i]]

\* A list of row indices being sorted, or the TypeError of a comparison.
Sorting(list) == [raised |-> FALSE, list |-> list]

SortError == [raised |-> TRUE, list |-> <<>>]

\* count_run of list.sort: the length of the run the list starts with, the
\* elements before position k being one already; 0 when a comparison raises.
\* An ascending run ends before the first element less than the one before
\* it, a descending run before the first element not less.
RECURSIVE RunLength(_, _, _, _)
RunLength(list, k, descending, keys) ==
    IF k > Len(list) THEN Len(list)
    ELSE IF KeyRaises(keys[list[k]], keys[list[k - 1]]) THEN 0
    ELSE IF KeyLt(keys[list[k]], keys[list[k - 1]]) = descending
    THEN RunLength(list, k + 1, descending, keys)
    ELSE k - 1

\* The binary search of binarysort: the number of elements of list[1..r],
\* sorted, that pivot is put after; -1 when a comparison raises.
RECURSIVE Bisect(_, _, _, _, _)
Bisect(list, pivot, l, r, keys) ==
    IF l >= r THEN l
    ELSE IF KeyRaises(keys[pivot], keys[list[l + (r - l) \div 2 + 1]]) THEN -1
    ELSE IF KeyLt(keys[pivot], keys[list[l + (r - l) \div 2 + 1]])
    THEN Bisect(list, pivot, l, l + (r - l) \div 2, keys)
    ELSE Bisect(list, pivot, l + (r - l) \div 2 + 1, r, keys)

\* list with the element at position start moved to stand after its first
\* at elements.
MoveTo(list, start, at) ==
    SubSeq(list, 1, at) \o <<list[start]>> \o SubSeq(list, at + 1, start - 1)
        \o SubSeq(list, start + 1, Len(list))

\* binarysort of list.sort: the elements from position start on are put, one
\* after the other, into the sorted elements before them.
RECURSIVE BinarySort(_, _, _)
BinarySort(list, start, keys) ==
    IF start > Len(list) THEN Sorting(list)
    ELSE IF Bisect(list, list[start], 0, start - 1, keys) = -1 THEN SortError
    ELSE BinarySort(MoveTo(list, start, Bisect(list, list[start], 0, start - 1, keys)),
                    start + 1, keys)

\* The first run, reversed when it descends, and the binary insertion of the
\* elements after it.
SortFromRun(list, n, descending, keys) ==
    IF n = 0 THEN SortError
    ELSE BinarySort((IF descending THEN Reverse(SubSeq(list, 1, n))
                     ELSE SubSeq(list, 1, n)) \o SubSeq(list, n + 1, Len(list)),
                    n + 1, keys)

\* list.sort on the row indices, ascending, as CPython sorts a list of fewer
\* than 64 elements: one run found by count_run, then binarysort.  The
\* comparisons made decide the result when some keys hold a nan, and decide
\* whether a float ever meets a datetime.
StableSort(list, keys) ==
    IF Len(list) < 2 THEN Sorting(list)
    ELSE IF KeyRaises(keys[list[2]], keys[list[1]]) THEN SortError
    ELSE SortFromRun(list,
                     RunLength(list, 3, KeyLt(keys[list[2]], keys[list[1]]), keys),
                     KeyLt(keys[list[2]], keys[list[1]]), keys)

\* A descending sort that sorts ascending and reverses the result.
SortedOrderReversedAfter(keys, reverse) ==
    LET order == [i \in 1..Len(keys) |-> i]
    IN  IF reverse THEN Reverse(StableSort(order, keys).list)
        ELSE StableSort(order, keys).list

\* The order sorted() gives the rows, as a sequence of row indices.  With
\* reverse the list is reversed, sorted and reversed again.
SortedOrder(keys, reverse) ==
    LET order == [i \in 1..Len(keys) |-> i]
    IN  IF reverse THEN Reverse(StableSort(Reverse(order), keys).list)
        ELSE StableSort(order, keys).list

\* sorted() raises TypeError when a comparison it makes raises.
SortRaises(keys, reverse) ==
    LET order == [i \in 1..Len(keys) |-> i]
    IN  StableSort(IF reverse THEN Reverse(order) ELSE order, keys).raised

(***************************************************************************)
(* csv.reader(f, delimiter=...) and the text written back                  *)
(***************************************************************************)

QuoteChar == "\""

\* parse_save_field: the field is appended to the record.
SaveField(st) == [st EXCEPT !.fields = st.fields \o <<st.field>>, !.field = <<>>]

AddChar(st, c) == [st EXCEPT !.field = st.field \o <<c>>]

\* parse_process_char of the csv module (excel dialect, not strict); c is a
\* character or "EOL", the end of the line.
ParseChar(st, c, delimiter) ==
    LET state == IF st.state = "START_RECORD" /\ c \notin {"EOL", "\n"}
                 THEN "START_FIELD" ELSE st.state
    IN  CASE state = "START_RECORD" ->
                 IF c = "EOL" THEN st ELSE [st EXCEPT !.state = "EAT_CRNL"]
          [] state = "START_FIELD" ->
                 IF c \in {"\n", "EOL"}
                 THEN [SaveField(st) EXCEPT
                          !.state = IF c = "EOL" THEN "START_RECORD" ELSE "EAT_CRNL"]
                 ELSE IF c = QuoteChar THEN [st EXCEPT !.state = "IN_QUOTED_FIELD"]
                 ELSE IF c = delimiter THEN [SaveField(st) EXCEPT !.state = "START_FIELD"]
                 ELSE [AddChar(st, c) EXCEPT !.state = "IN_FIELD"]
          [] state = "IN_FIELD" ->
                 IF c \in {"\n", "EOL"}
                 THEN [SaveField(st) EXCEPT
                          !.state = IF c = "EOL" THEN "START_RECORD" ELSE "EAT_CRNL"]
                 ELSE IF c = delimiter THEN [SaveField(st) EXCEPT !.state = "START_FIELD"]
                 ELSE AddChar(st, c)
          [] state = "IN_QUOTED_FIELD" ->
                 IF c = "EOL" THEN st
                 ELSE IF c = QuoteChar THEN [st EXCEPT !.state = "QUOTE_IN_QUOTED_FIELD"]
                 ELSE AddChar(st, c)
          [] state = "QUOTE_IN_QUOTED_FIELD" ->
                 IF c = QuoteChar THEN [AddChar(st, c) EXCEPT !.state = "IN_QUOTED_FIELD"]
                 ELSE IF c = delimiter THEN [SaveField(st) EXCEPT !.state = "START_FIELD"]
                 ELSE IF c \in {"\n", "EOL"}
                 THEN [SaveField(st) EXCEPT
                          !.state = IF c = "EOL" THEN "START_RECORD" ELSE "EAT_CRNL"]
                 ELSE [AddChar(st, c) EXCEPT !.state = "IN_FIELD"]
          [] state = "EAT_CRNL" ->
                 IF c = "EOL" THEN [st EXCEPT !.state = "START_RECORD"]
                 ELSE IF c = "\n" THEN st
                 ELSE [st EXCEPT !.state = "Error"]

\* The lines iterating over the file yields: each ends with its "\n", the
\* last one possibly without.
RECURSIVE SplitLines(_)
SplitLines(text) ==
    LET ends == {i \in 1..Len(text) : text[i] = "\n"}
        first == CHOOSE i \in ends : \A j \in ends : i <= j
    IN  IF text = <<>> THEN <<>>
        ELSE IF ends = {} THEN <<text>>
        ELSE <<SubSeq(text, 1, first)>> \o SplitLines(SubSeq(text, first + 1, Len(text)))

\* Reader_iternext, inner loop: the characters of one line from position k
\* on, then "EOL"; csv.Error ends it.
RECURSIVE ParseLine(_, _, _, _)
ParseLine(st, line, k, delimiter) ==
    IF k > Len(line) THEN ParseChar(st, "EOL", delimiter)
    ELSE LET next == ParseChar(st, line[k], delimiter)
         IN  IF next.state = "Error" THEN next
             ELSE ParseLine(next, line, k + 1, delimiter)

\* list(reader): Reader_iternext takes lines until the state is back at
\* START_RECORD, which completes a record; when the lines run out inside a
\* quoted field, the field is saved as it is and the record returned.
RECURSIVE ReadLines(_, _, _, _)
ReadLines(lines, k, st, delimiter) ==
    IF k > Len(lines)
    THEN IF st.field # <<>> \/ st.state = "IN_QUOTED_FIELD"
         THEN st.rows \o <<SaveField(st).fields>>
         ELSE st.rows
    ELSE LET after == ParseLine(st, lines[k], 1, delimiter)
         IN  IF after.state = "START_RECORD"
             THEN ReadLines(lines, k + 1,
                            [after EXCEPT !.rows = after.rows \o <<after.fields>>,
                                          !.fields = <<>>],
                            delimiter)
             ELSE ReadLines(lines, k + 1, after, delimiter)

\* list(csv.reader(f, delimiter=delimiter))
ReadRows(text, delimiter) ==
    ReadLines(SplitLines(text), 1,
              [state |-> "START_RECORD", field |-> <<>>, fields |-> <<>>, rows |-> <<>>],
              delimiter)

\* delimiter.join(row)
RECURSIVE Join(_, _)
Join(delimiter, row) ==
    IF row = <<>> THEN <<>>
    ELSE IF Len(row) = 1 THEN row[1]
    ELSE row[1] \o <<delimiter>> \o Join(delimiter, Tail(row))

\* Rows written with their cells stripped and lower-cased, as the keys are.
RECURSIVE WriteRowsNormalized(_, _)
WriteRowsNormalized(delimiter, rows) ==
    IF rows = <<>> THEN <<>>
    ELSE Join(delimiter, [i \in 1..Len(Head(rows)) |-> Lower(Strip(Head(rows)[i]))])
         \o <<"\n">> \o WriteRowsNormalized(delimiter, Tail(rows))

\* The lines f.write puts in the file: each row joined, then '\n'.
RECURSIVE WriteRows(_, _)
WriteRows(delimiter, rows) ==
    IF rows = <<>> THEN <<>>
    ELSE Join(delimiter, Head(rows)) \o <<"\n">> \o WriteRows(delimiter, Tail(rows))

(***************************************************************************)
(* CSVSorter.get_common_sort_fields                                        *)
(***************************************************************************)

Range(seq) == {seq[i] : i \in 1..Len(seq)}

\* set(header) for the first record of the file; set() when next(reader)
\* raises StopIteration, which the except clause catches.
HeaderSet(rows) == IF rows # <<>> THEN Range(rows[1]) ELSE {}

\* file_headers[filename]; set() for a file that does not exist.
FileHeader(file, delimiter) ==
    IF file.exists THEN HeaderSet(ReadRows(file.text, delimiter)) ELSE {}

\* [field_config for field_config in fields if field_config['name'] in common_headers]
RECURSIVE FilterFields(_, _)
FilterFields(fields, common_headers) ==
    IF fields = <<>> THEN <<>>
    ELSE (IF Head(fields).name \in common_headers THEN <<Head(fields)>> ELSE <<>>)
         \o FilterFields(Tail(fields), common_headers)

\* file_headers is a dict keyed by file name: one entry for every configured
\* name, the missing files included.
get_common_sort_fields(dir, names, config) ==
    LET file_headers == [n \in Range(names) |-> FileHeader(dir[n], config.delimiter)]
        common_headers ==
            {h \in UNION {file_headers[n] : n \in DOMAIN file_headers} :
                \A n \in DOMAIN file_headers : h \in file_headers[n]}
    IN  IF Cardinality(DOMAIN file_headers) < 2 THEN config.fields
        ELSE FilterFields(config.fields, common_headers)

(***************************************************************************)
(* CSVSorter.sort_csv_file                                                 *)
(***************************************************************************)

\* data_rows[:100]: the rows the type of an auto field is detected from.
SampleRows == 100

\* header.index(field_name), counted from 1; 0 stands for ValueError.
IndexOf(header, name) ==
    LET at == {i \in 1..Len(header) : header[i] = name}
    IN  IF at = {} THEN 0 ELSE CHOOSE i \in at : \A j \in at : i <= j

Min(a, b) == IF a < b THEN a ELSE b

\* The rows sampled for an auto field.
SampleOf(data_rows) == SubSeq(data_rows, 1, Min(SampleRows, Len(data_rows)))

\* What the loop body that fills field_types does for one field: "ok", or
\* the exception it raises.  Only an auto field looks its column up there,
\* and row[column_index] is not guarded against a short row.
ColumnStatus(column_index, sample) ==
    IF column_index = 0 THEN "ValueError"
    ELSE IF \E r \in 1..Len(sample) : Len(sample[r]) < column_index THEN "IndexError"
    ELSE "ok"

TypeStatus(f, header, data_rows) ==
    IF f.type # "auto" THEN "ok"
    ELSE ColumnStatus(IndexOf(header, f.name), SampleOf(data_rows))

\* [row[column_index] for row in data_rows[:100]]
Column(column_index, sample) == [r \in 1..Len(sample) |-> sample[r][column_index]]

\* field_types[field_name] for one field that raised nothing.
ResolveType(f, header, data_rows) ==
    IF f.type = "auto"
    THEN detect_field_type(Column(IndexOf(header, f.name), SampleOf(data_rows)))
    ELSE f.type

\* Position in fields of the last field with this name: a later assignment
\* to field_types[field_name] replaces an earlier one.
LastNamed(fields, name) ==
    CHOOSE i \in 1..Len(fields) :
        /\ fields[i].name = name
        /\ \A j \in 1..Len(fields) : fields[j].name = name => j <= i

\* field_types once the loop has ended without an exception.
FieldTypes(fields, header, data_rows) ==
    [n \in {fields[i].name : i \in 1..Len(fields)} |->
        ResolveType(fields[LastNamed(fields, n)], header, data_rows)]

\* row[column_index] if column_index < len(row) else ''
CellAt(row, column_index) == IF column_index <= Len(row) THEN row[column_index] ELSE <<>>

\* sort_key(row)
sort_key(row, fields, header, field_types) ==
    [i \in 1..Len(fields) |->
        sort_value(CellAt(row, IndexOf(header, fields[i].name)),
                   field_types[fields[i].name])]

NoRun ==
    [status |-> "none", header |-> <<>>, data_rows |-> <<>>, keys |-> <<>>,
     order |-> <<>>, sorted_data |-> <<>>, out |-> <<>>]

\* What sort_csv_file did after an exception: the rows read and the
\* exception that was logged and raised again.
Raised(exception, header, data_rows, keys) ==
    [NoRun EXCEPT !.status = exception, !.header = header,
                  !.data_rows = data_rows, !.keys = keys]

\* Lines 436-443: the header and the rows in their sorted order are written.
Written(header, data_rows, keys, order, delimiter) ==
    [status |-> "ok", header |-> header, data_rows |-> data_rows, keys |-> keys,
     order |-> order, sorted_data |-> [k \in 1..Len(order) |-> data_rows[order[k]]],
     out |-> WriteRows(delimiter,
                       <<header>> \o [k \in 1..Len(order) |-> data_rows[order[k]]])]

\* Lines 428-443: sorted() on the keys, then the output file.
SortAndWrite(header, data_rows, keys, config) ==
    IF SortRaises(keys, config.order = "desc")
    THEN Raised("TypeError", header, data_rows, keys)
    ELSE Written(header, data_rows, keys,
                 SortedOrder(keys, config.order = "desc"), config.delimiter)

\* Lines 410-430 once field_types is known: sorted() calls sort_key on every
\* row, and header.index raises ValueError for a field the header lacks.
KeyAndSort(header, data_rows, fields, field_types, config) ==
    IF data_rows # <<>> /\ \E i \in 1..Len(fields) : IndexOf(header, fields[i].name) = 0
    THEN Raised("ValueError", header, data_rows, <<>>)
    ELSE SortAndWrite(header, data_rows,
                      [r \in 1..Len(data_rows) |->
                          sort_key(data_rows[r], fields, header, field_types)],
                      config)

\* Lines 394-408: the loop that fills field_types stops at the first field
\* that raises.
TypeAndSort(header, data_rows, fields, bad, config) ==
    IF bad # {}
    THEN Raised(TypeStatus(fields[CHOOSE i \in bad : \A j \in bad : i <= j],
                           header, data_rows),
                header, data_rows, <<>>)
    ELSE KeyAndSort(header, data_rows, fields,
                    FieldTypes(fields, header, data_rows), config)

\* Lines 381-388: an empty file is left alone, else the first record is the
\* header and the rest the data rows.
SortRows(rows, fields, config) ==
    IF rows = <<>> THEN [NoRun EXCEPT !.status = "empty"]
    ELSE TypeAndSort(rows[1], Tail(rows), fields,
                     {i \in 1..Len(fields) : fields[i].type = "auto"
                         /\ ColumnStatus(IndexOf(rows[1], fields[i].name),
                                         SampleOf(Tail(rows))) # "ok"},
                     config)

\* sort_csv_file: status is "ok" when the output file was written, "empty"
\* when the file has no record (return without output), else the exception
\* that was logged and raised again.
sort_csv_file(text, fields, config) ==
    SortRows(ReadRows(text, config.delimiter), fields, config)

(***************************************************************************)
(* The run: CSVSorter.__init__ and CSVSorter.process_files                 *)
(***************************************************************************)

\* __init__: self.common_sort_fields = self.get_common_sort_fields()
Construct ==
    /\ pc = "new"
    /\ common_sort_fields' = get_common_sort_fields(files, input_files, sort_config)
    /\ pc' = "ready"
    /\ UNCHANGED <<input_files, files, sort_config, idx, outputs, runs, resorted>>
    /\ UNCHANGED <<value_vars, detect_vars>>

\* process_files: no common sort field, the processing is abandoned.
Abort ==
    /\ pc = "ready"
    /\ common_sort_fields = <<>>
    /\ pc' = "done"
    /\ UNCHANGED <<input_files, files, sort_config, common_sort_fields, idx,
                   outputs, runs, resorted>>
    /\ UNCHANGED <<value_vars, detect_vars>>

\* process_files, loop body: the input file does not exist, continue.
SkipMissing ==
    /\ pc = "ready"
    /\ common_sort_fields # <<>>
    /\ idx <= Len(input_files)
    /\ ~files[input_files[idx]].exists
    /\ idx' = idx + 1
    /\ UNCHANGED <<input_files, files, sort_config, common_sort_fields, pc,
                   outputs, runs, resorted>>
    /\ UNCHANGED <<value_vars, detect_vars>>

\* What is left of one call of sort_csv_file: the output file when nothing
\* was raised before the write, else the error logged by the except clause.
AfterSort(name, run) ==
    /\ runs' = [runs EXCEPT ![name] = run]
    /\ outputs' = IF run.status = "ok"
                  THEN [outputs EXCEPT ![name] = [written |-> TRUE, text |-> run.out]]
                  ELSE outputs

\* The loop body without the try/except around sort_csv_file: an exception
\* leaves process_files and the files after this one are not looked at.
SortFileUncaught ==
    /\ pc = "ready"
    /\ common_sort_fields # <<>>
    /\ idx <= Len(input_files)
    /\ files[input_files[idx]].exists
    /\ AfterSort(input_files[idx],
                 sort_csv_file(files[input_files[idx]].text, common_sort_fields,
                               sort_config))
    /\ idx' = idx + 1
    /\ pc' = IF runs'[input_files[idx]].status \in {"ok", "empty"} THEN "ready" ELSE "done"
    /\ UNCHANGED <<input_files, files, sort_config, common_sort_fields, resorted>>
    /\ UNCHANGED <<value_vars, detect_vars>>

\* process_files, loop body: sort_csv_file inside try/except.
SortFile ==
    /\ pc = "ready"
    /\ common_sort_fields # <<>>
    /\ idx <= Len(input_files)
    /\ files[input_files[idx]].exists
    /\ AfterSort(input_files[idx],
                 sort_csv_file(files[input_files[idx]].text, common_sort_fields,
                               sort_config))
    /\ idx' = idx + 1
    /\ UNCHANGED <<input_files, files, sort_config, common_sort_fields, pc, resorted>>
    /\ UNCHANGED <<value_vars, detect_vars>>

\* process_files: the loop is over.
Finish ==
    /\ pc = "ready"
    /\ common_sort_fields # <<>>
    /\ idx > Len(input_files)
    /\ pc' = "done"
    /\ UNCHANGED <<input_files, files, sort_config, common_sort_fields, idx,
                   outputs, runs, resorted>>
    /\ UNCHANGED <<value_vars, detect_vars>>

\* A written output file is given to sort_csv_file again, same configuration.
Resort ==
    /\ pc = "done"
    /\ \E name \in Range(input_files) :
          /\ outputs[name].written
          /\ resorted[name].status = "none"
          /\ resorted' = [resorted EXCEPT ![name] =
                 sort_csv_file(outputs[name].text, common_sort_fields, sort_config)]
    /\ UNCHANGED <<input_files, files, sort_config, common_sort_fields, pc, idx,
                   outputs, runs>>
    /\ UNCHANGED <<value_vars, detect_vars>>

Next == Construct \/ Abort \/ SkipMissing \/ SortFile \/ Finish \/ Resort

(***************************************************************************)
(* Inputs                                                                  *)
(***************************************************************************)

MaxRows == 3

MaxFiles == 3

MaxSamples == 5

FileNames == <<"f1", "f2", "f3", "f4", "f5">>

Types == {"auto", "text", "number", "date"}

Missing == [exists |-> FALSE, text |-> <<>>]

File(text) == [exists |-> TRUE, text |-> text]

NotWritten == [written |-> FALSE, text |-> <<>>]

Field(name, type, order) == [name |-> <<name>>, type |-> type, order |-> order]

\* All sequences over S of length at most n.
RECURSIVE SeqsUpTo(_, _)
SeqsUpTo(S, n) ==
    IF n = 0 THEN {<<>>}
    ELSE LET shorter == SeqsUpTo(S, n - 1)
         IN  shorter \cup {s \o <<x>> : s \in {t \in shorter : Len(t) = n - 1}, x \in S}

\* Lines of a file with the header A;B: plain, empty, unparsable and short
\* rows, cells that hold the delimiter or a quote (quoted in the file), and
\* a cell that float() reads as nan.
DataLines ==
    { <<"1", ";", "x">>,
      <<";", "1">>,
      <<"x", ";", "2">>,
      <<"X">>,
      <<"\"", ";", "\"", ";", "1">>,
      <<"\"", "\"", "\"", "\"", ";", "2">>,
      <<"n", "a", "n", ";", "1">> }

RECURSIVE Lines(_)
Lines(ls) == IF ls = <<>> THEN <<>> ELSE Head(ls) \o <<"\n">> \o Lines(Tail(ls))

\* The files of the single-file runs: missing, empty, or header and rows.
SingleFiles ==
    {Missing, File(<<>>)}
    \cup {File(Lines(<<(<<"A", ";", "B">>)>> \o ls)) : ls \in SeqsUpTo(DataLines, MaxRows)}

\* Field lists of the single-file runs; the per-field order is the same for
\* every field of one list.
SingleFieldLists ==
    {<<>>}
    \cup {<<Field("A", t, o)>> : t \in Types, o \in {"asc", "desc"}}
    \cup {<<Field("A", t, o), Field("B", u, o)>> :
             t \in Types, u \in Types, o \in {"asc", "desc"}}

InitIdle ==
    /\ value = <<>>
    /\ field_type = "text"
    /\ sort_result = [t |-> "none"]
    /\ sample_values = <<>>
    /\ detected = "none"

InitRun ==
    /\ pc = "new"
    /\ idx = 1
    /\ common_sort_fields = <<>>
    /\ outputs = [n \in Range(input_files) |-> NotWritten]
    /\ runs = [n \in Range(input_files) |-> NoRun]
    /\ resorted = [n \in Range(input_files) |-> NoRun]

\* One configured file, any contents, any field list.
Init ==
    /\ input_files = <<FileNames[1]>>
    /\ files \in [Range(input_files) -> SingleFiles]
    /\ sort_config \in [delimiter : {";"}, fields : SingleFieldLists,
                        order : {"asc", "desc"}]
    /\ InitRun
    /\ InitIdle

Spec == Init /\ [][Next]_vars

(***************************************************************************)
(* Batch runs: several configured files                                    *)
(***************************************************************************)

\* The files of the batch runs: missing, empty, or one of two headers with two
\* full rows or one short row.
BatchFiles ==
    {Missing, File(<<>>)}
    \cup {File(Lines(<<h>> \o ls)) :
             h \in { <<"A", ";", "B", ";", "C">>, <<"B", ";", "C", ";", "D">> },
             ls \in { << <<"2", ";", "1", ";", "x">>, <<"1", ";", "1", ";", "X">> >>,
                      << <<"1">> >> }}

BatchFieldLists ==
    UNION {{ <<Field("A", t, "asc"), Field("B", t, "asc"), Field("C", t, "desc")>>,
             <<Field("C", t, "asc"), Field("B", t, "asc")>>,
             <<Field("B", t, "asc")>>,
             <<Field("D", t, "asc")>> } : t \in {"text", "auto"}}

InitBatch ==
    /\ \E n \in 1..MaxFiles : input_files = SubSeq(FileNames, 1, n)
    /\ files \in [Range(input_files) -> BatchFiles]
    /\ sort_config \in [delimiter : {";"}, fields : BatchFieldLists,
                        order : {"asc", "desc"}]
    /\ InitRun
    /\ InitIdle

SpecBatch == InitBatch /\ [][Next]_vars

(***************************************************************************)
(* Calls of sort_value and of detect_field_type on their own               *)
(***************************************************************************)

InitNoRun ==
    /\ input_files = <<>>
    /\ files = <<>>
    /\ sort_config = [delimiter |-> ";", fields |-> <<>>, order |-> "asc"]
    /\ pc = "idle"
    /\ idx = 1
    /\ common_sort_fields = <<>>
    /\ outputs = <<>>
    /\ runs = <<>>
    /\ resorted = <<>>

\* Cell contents given to sort_value.
ValueCells ==
    { <<>>, <<" ">>, <<" ", " ">>, <<"\n">>, <<" ", "\n">>,
      <<"1">>, <<"2">>, <<"0">>, <<" ", "1">>, <<"1", " ">>, <<"1", "2">>,
      <<"2", "1">>, <<"1", ",", "2">>, <<"2", ",", "1">>, <<"1", "/", "2">>,
      <<"2", "/", "1">>, <<",">>, <<"/">>, <<"x">>, <<"X">>, <<" ", "X">>,
      <<"x", "X">>, <<"1", "x">>, <<"x", "1">>, <<";">>, <<"\"">> }

InitValue ==
    /\ value \in ValueCells
    /\ field_type \in {"text", "number", "date"}
    /\ sort_result = [t |-> "none"]
    /\ sample_values = <<>>
    /\ detected = "none"
    /\ InitNoRun

\* sort_value(value, field_type)
Normalize ==
    /\ sort_result.t = "none"
    /\ sort_result' = sort_value(value, field_type)
    /\ UNCHANGED <<value, field_type, detect_vars, batch_vars>>

NextValue == Normalize

SpecValue == InitValue /\ [][NextValue]_vars

\* Sample values given to detect_field_type: blank, number and date, number
\* only, date only, neither.
SampleCells == { <<" ">>, <<"1">>, <<"0">>, <<"1", "/", "2">>, <<"x">> }

InitDetect ==
    /\ sample_values \in SeqsUpTo(SampleCells, MaxSamples)
    /\ detected = "none"
    /\ value = <<>>
    /\ field_type = "text"
    /\ sort_result = [t |-> "none"]
    /\ InitNoRun

\* detect_field_type(sample_values)
Detect ==
    /\ detected = "none"
    /\ detected' = detect_field_type(sample_values)
    /\ UNCHANGED <<sample_values, value_vars, batch_vars>>

NextDetect == Detect

SpecDetect == InitDetect /\ [][NextDetect]_vars

(***************************************************************************)
(* Claims                                                                  *)
(***************************************************************************)

\* C1: sorting never aborts on dirty data.  Whenever sort_csv_file has read a
\* file with a header that holds every common sort field, and every field has
\* a declared type text, number or date, it computes a key for every row,
\* raises nothing and writes the output file.
C1_SortNeverAborts ==
    \A n \in DOMAIN runs :
        LET run == runs[n]
        IN  ( /\ run.status \notin {"none", "empty"}
              /\ \A i \in 1..Len(common_sort_fields) :
                    /\ common_sort_fields[i].type \in {"text", "number", "date"}
                    /\ common_sort_fields[i].name \in Range(run.header) )
            => /\ run.status = "ok"
               /\ Len(run.keys) = Len(run.data_rows)
               /\ outputs[n].written

\* C2: for an empty or whitespace-only value sort_value returns the empty
\* string for text, negative infinity for number and the minimum instant
\* (what an unparsable date gets) for date.
C2_BlankValue ==
    ( /\ sort_result.t # "none"
      /\ \A i \in 1..Len(value) : IsSpace(value[i]) )
    => sort_result = CASE field_type = "text" -> StrValue(<<>>)
                       [] field_type = "number" -> NegInf
                       [] field_type = "date" -> DatetimeMin

\* C3: a missing input file is skipped and the batch goes on.  At the end of
\* a run in which every configured file that exists holds every configured
\* sort field and sorts without error on its own, and at least one exists,
\* every existing file has its output written.
C3_MissingFileSkipped ==
    ( /\ pc = "done"
      /\ \E n \in Range(input_files) : files[n].exists
      /\ \A n \in Range(input_files) :
            files[n].exists =>
               /\ \A i \in 1..Len(sort_config.fields) :
                     sort_config.fields[i].name
                        \in FileHeader(files[n], sort_config.delimiter)
               /\ sort_csv_file(files[n].text, sort_config.fields,
                                sort_config).status = "ok" )
    => \A n \in Range(input_files) : files[n].exists => outputs[n].written

\* C4: when fewer than 2 configured files have a readable header,
\* get_common_sort_fields returns the configured field list unchanged.
C4_FewerThanTwoReadable ==
    ( /\ pc \in {"ready", "done"}
      /\ Cardinality({n \in Range(input_files) :
                         /\ files[n].exists
                         /\ ReadRows(files[n].text, sort_config.delimiter) # <<>>}) < 2 )
    => common_sort_fields = sort_config.fields

\* C5: when at least 2 files have a readable header, get_common_sort_fields
\* returns the configured fields whose name is in the header of every file
\* that has one, in the configured order.
C5_CommonFieldsExact ==
    LET readable == {n \in Range(input_files) :
                        /\ files[n].exists
                        /\ ReadRows(files[n].text, sort_config.delimiter) # <<>>}
        InAll(f) == \A n \in readable :
                       f.name \in Range(ReadRows(files[n].text, sort_config.delimiter)[1])
    IN  (pc \in {"ready", "done"} /\ Cardinality(readable) >= 2)
        => common_sort_fields = SelectSeq(sort_config.fields, InAll)

\* C6: a data row shorter than the header is sorted without error, for any
\* field type, auto included, and each missing sort-field cell of the row is
\* keyed as the empty string is.
C6_ShortRowSorted ==
    \A n \in DOMAIN runs :
        LET run == runs[n]
        IN  ( /\ run.status \notin {"none", "empty", "TypeError"}
              /\ \E r \in 1..Len(run.data_rows) : Len(run.data_rows[r]) < Len(run.header)
              /\ \A i \in 1..Len(common_sort_fields) :
                    common_sort_fields[i].name \in Range(run.header) )
            => /\ run.status = "ok"
               /\ \A r \in 1..Len(run.data_rows), i \in 1..Len(common_sort_fields) :
                     IndexOf(run.header, common_sort_fields[i].name) > Len(run.data_rows[r])
                        => run.keys[r][i] \in {StrValue(<<>>), NegInf}

\* C7: sorting is stable in both directions.  In the order written, two rows
\* with equal composite keys stand in the order they had in the input.
C7_Stable ==
    \A n \in DOMAIN runs :
        LET run == runs[n]
        IN  run.status = "ok" =>
               \A i, j \in 1..Len(run.order) :
                  (i < j /\ KeyEq(run.keys[run.order[i]], run.keys[run.order[j]]))
                     => run.order[i] < run.order[j]

\* A descending sort of three rows, two of them different rows with equal
\* keys and one with another key.
C7_Witness ==
    \E n \in DOMAIN runs :
        LET run == runs[n]
        IN  /\ run.status = "ok"
            /\ sort_config.order = "desc"
            /\ \E i, j, k \in 1..Len(run.data_rows) :
                  /\ i < j
                  /\ KeyEq(run.keys[i], run.keys[j])
                  /\ run.data_rows[i] # run.data_rows[j]
                  /\ ~KeyEq(run.keys[i], run.keys[k])

\* C8: sorting is idempotent.  The output of sort_csv_file, given to
\* sort_csv_file again with the same configuration, is sorted without error
\* into the same file.
C8_Idempotent ==
    \A n \in DOMAIN resorted :
        resorted[n].status # "none" =>
            /\ resorted[n].status = "ok"
            /\ resorted[n].out = outputs[n].text

\* C9: the output is the input header followed by a permutation of the data
\* rows read, every cell as it was read: no row added, dropped or altered.
C9_Permutation ==
    \A n \in DOMAIN runs :
        LET run == runs[n]
            d == sort_config.delimiter
        IN  run.status = "ok" =>
               /\ Len(run.order) = Len(run.data_rows)
               /\ Range(run.order) = 1..Len(run.data_rows)
               /\ outputs[n].written
               /\ outputs[n].text =
                     Lines(<<Join(d, run.header)>>
                           \o [k \in 1..Len(run.order) |->
                                  Join(d, run.data_rows[run.order[k]])])

\* Three rows written in another order than read, one of them with a cell
\* that normalisation changes (upper case).
C9_Witness ==
    \E n \in DOMAIN runs :
        LET run == runs[n]
        IN  /\ run.status = "ok"
            /\ Len(run.data_rows) >= 3
            /\ run.sorted_data # run.data_rows
            /\ \E r \in 1..Len(run.data_rows) : run.data_rows[r] = << <<"X">> >>

\* C10: detect_field_type returns number exactly when more than 80% of the
\* non-blank samples parse as numbers, otherwise date exactly when more than
\* 80% parse as dates, otherwise text; text when no sample is non-blank.
C10_StrictThreshold ==
    LET nb == {i \in 1..Len(sample_values) :
                  \E k \in 1..Len(sample_values[i]) : ~IsSpace(sample_values[i][k])}
        num == {i \in nb : ParsesAsNumber(Strip(sample_values[i]))}
        dat == {i \in nb : ParsesAsDate(Strip(sample_values[i]))}
        manyNumbers == nb # {} /\ 100 * Cardinality(num) > 80 * Cardinality(nb)
        manyDates == nb # {} /\ 100 * Cardinality(dat) > 80 * Cardinality(nb)
    IN  detected # "none" =>
           /\ detected \in {"number", "date", "text"}
           /\ detected = "number" <=> manyNumbers
           /\ detected = "date" <=> (~manyNumbers /\ manyDates)

\* Five non-blank samples of which exactly four are numbers: exactly 80%.
C10_Witness ==
    LET nb == {i \in 1..Len(sample_values) : Strip(sample_values[i]) # <<>>}
        num == {i \in nb : ParsesAsNumber(Strip(sample_values[i]))}
    IN  /\ detected # "none"
        /\ Cardinality(nb) = 5
        /\ Cardinality(num) = 4

\* C11: a failure while sorting one file does not stop the batch.  When
\* sort_csv_file has raised for a file, the run still ends with every later
\* configured file that exists attempted, and every later file that sorts
\* without error on its own has its output written, with the sorted rows.
C11_FailureDoesNotStopBatch ==
    \A i, j \in 1..Len(input_files) :
        ( /\ pc = "done"
          /\ i < j
          /\ runs[input_files[i]].status \in {"ValueError", "IndexError", "TypeError"}
          /\ files[input_files[j]].exists )
        => /\ runs[input_files[j]].status # "none"
           /\ sort_csv_file(files[input_files[j]].text, common_sort_fields,
                            sort_config).status = "ok"
                 => /\ outputs[input_files[j]].written
                    /\ outputs[input_files[j]].text =
                          sort_csv_file(files[input_files[j]].text,
                                        common_sort_fields, sort_config).out

\* A finished run of three files: the first is sorted, the second raises,
\* the third is sorted and written after it.
C11_Witness ==
    /\ pc = "done"
    /\ Len(input_files) = 3
    /\ runs[input_files[1]].status = "ok"
    /\ runs[input_files[2]].status \in {"ValueError", "IndexError", "TypeError"}
    /\ runs[input_files[3]].status = "ok"
    /\ outputs[input_files[3]].written
    /\ Len(runs[input_files[3]].data_rows) >= 2
    /\ runs[input_files[3]].sorted_data # runs[input_files[3]].data_rows

\* C12: the written data rows are ordered by the composite key, compared
\* field by field in the configured order of the fields, in one direction for
\* the whole key: with order asc no row is written after a row with a greater
\* key, with order desc none after a row with a smaller key.  The order
\* values of the fields have no effect: the same file sorted under a
\* configuration that differs only in them gives the same output.
C12_OrderedByCompositeKey ==
    \A n \in DOMAIN runs :
        LET run == runs[n]
            fields == common_sort_fields
            Less(k1, k2) ==
                \E i \in 1..Len(fields) :
                    /\ \A j \in 1..(i - 1) : ValEq(k1[j], k2[j])
                    /\ k1[i].t = k2[i].t
                    /\ ValLt(k1[i], k2[i])
            key(p) == run.keys[run.order[p]]
        IN  run.status = "ok" =>
               /\ \A r \in 1..Len(run.data_rows) :
                     /\ Len(run.keys[r]) = Len(fields)
                     /\ \A i \in 1..Len(fields) :
                           \E t \in {"text", "number", "date"} :
                              run.keys[r][i] =
                                 sort_value(CellAt(run.data_rows[r],
                                                   IndexOf(run.header, fields[i].name)), t)
               /\ \A p, q \in 1..Len(run.order) :
                     p < q => IF sort_config.order = "desc"
                              THEN ~Less(key(p), key(q))
                              ELSE ~Less(key(q), key(p))
               /\ \A o \in [1..Len(fields) -> {"asc", "desc"}] :
                     sort_csv_file(files[n].text,
                                   [i \in 1..Len(fields) |->
                                       [fields[i] EXCEPT !.order = o[i]]],
                                   sort_config).out = outputs[n].text

====
